---- MODULE Spec2Model ----
(***************************************************************************)
(* Bidz auction backend (src/backend/main.py, models.py, utils.py).        *)
(*                                                                         *)
(* State: the items and bids tables, the wall clock, the repeat_every      *)
(* timer of the closing sweep, one request context per worker thread that  *)
(* is serving POST /item/{item_id}/bid, and the answer last sent.          *)
(*                                                                         *)
(* add_bid is a synchronous handler: FastAPI runs it on a thread pool, so  *)
(* several add_bid calls run in parallel, each with its own Session.  A    *)
(* call takes three steps: the SELECT of line 313, the clock read of the   *)
(* Bid default_factory at line 343, and the flush + COMMIT of line 349.    *)
(* Each is one action; the checks of lines 314-338 are local and belong to *)
(* the first, and the refresh of line 350, which writes nothing, and the   *)
(* answer belong to the last.                                              *)
(***************************************************************************)
EXTENDS Integers, Sequences, FiniteSets, TLC

\* ---------------------------------------------------------------- bounds
MaxAmount == 2       \* finite amounts and starting bids range over
                     \* 0..MaxAmount

\* ----------------------------------------------------- program constants
SweepPeriod == 60    \* @repeat_every(seconds=60)
DaySeconds  == 86400 \* timedelta(days=1)
None        == -1    \* Python None in an Optional column

TickStep == DaySeconds           \* seconds the clock advances in one Tick
MaxTime  == TickStep             \* the clock saturates here: the model
                                 \* follows one day, the life of the
                                 \* shortest auction

Users   == {1, 2}        \* registered users (users.id)
Sellers == {1}           \* the users who list items
ItemIds == {1}           \* ids the items table hands out
BidIds  == {1, 2, 3}     \* ids the bids table hands out (three: one bid
                         \* to set a price, two to race on it)
Procs   == {1, 2}        \* worker threads serving add_bid in parallel
Days    == {0, 1}        \* ItemForm.days

\* float('nan'), float('inf'), float('-inf').  BidCreate.bid and
\* ItemForm.starting_bid are declared as plain float: the schema accepts the
\* three values that are not finite, and the float8 column stores them.
\* The infinities are ordered like numbers, above and below every finite
\* amount.
NaN    == -2
PosInf == 1000000
NegInf == -1000000

NonFinite == {NaN, PosInf, NegInf}
IsFinite(x) == x \notin NonFinite

Amounts      == (1..MaxAmount) \cup NonFinite   \* BidCreate.bid
StartingBids == (0..MaxAmount) \cup NonFinite   \* ItemForm.starting_bid

\* Python's comparisons of two floats: every comparison with NaN is False,
\* NaN == NaN included.  (None is never compared with <, <=: the handler
\* tests "is None" first; None == x is False for every float x.)
FloatLt(a, b) == a # NaN /\ b # NaN /\ a < b
FloatLe(a, b) == a # NaN /\ b # NaN /\ a <= b
FloatEq(a, b) == a # NaN /\ b # NaN /\ a = b

Min(a, b) == IF a <= b THEN a ELSE b
Max(a, b) == IF a >= b THEN a ELSE b

VARIABLES
    items,   \* items table: sequence of rows, row k has id k
    bids,    \* bids table: sequence of rows in commit order, row k has id k
    now,     \* datetime.now(timezone.utc), in seconds
    timer,   \* seconds until repeat_every next calls mark_ended_auctions
    req,     \* req[p]: the add_bid call thread p is serving
    resp,    \* the answer add_bid sent last ("" before the first)
    hist     \* history: hist[k] = the current_bid that the call which inserted
             \* bids[k] had read and validated against

vars == <<items, bids, now, timer, req, resp, hist>>

\* ------------------------------------------------------------ data model
\* models.Item as constructed by add_item (lines 224-232) with the column
\* defaults of models.py: current_bid None, is_active True, winner_id None.
NewItem(owner, starting_bid, days, t) ==
    [ owner_id     |-> owner,
      starting_bid |-> starting_bid,
      current_bid  |-> None,
      is_active    |-> TRUE,
      winner_id    |-> None,
      end_at       |-> t + days * DaySeconds ]

\* models.Bid as constructed by add_bid (lines 343-347); created_at is the
\* default_factory's datetime.now at construction.
NewBid(user, item_id, amount, t) ==
    [ user_id |-> user, item_id |-> item_id, bid |-> amount, created_at |-> t ]

\* Placeholder for "no Item loaded in the session".
NoItem ==
    [ owner_id |-> None, starting_bid |-> None, current_bid |-> None,
      is_active |-> FALSE, winner_id |-> None, end_at |-> None ]

\* A thread that is serving no add_bid call.
Idle == [ pc |-> "idle", item_id |-> 0, user |-> 0, bid |-> 0,
          loaded |-> None, created_at |-> 0 ]

\* The shape of the state: the columns of models.Item and models.Bid that the
\* modelled code reads or writes, and the locals of one add_bid call.
TypeOK ==
    /\ \A k \in 1..Len(items) :
          /\ items[k].owner_id \in Sellers
          /\ items[k].starting_bid \in StartingBids \ {0, NegInf}
          /\ items[k].current_bid \in Amounts \cup {None}
          /\ items[k].is_active \in BOOLEAN
          /\ items[k].winner_id \in Users \cup {None}
          /\ items[k].end_at \in Nat
    /\ \A k \in 1..Len(bids) :
          /\ bids[k].user_id \in Users
          /\ bids[k].item_id \in 1..Len(items)
          /\ bids[k].bid \in Amounts
          /\ bids[k].created_at \in 0..MaxTime
    /\ Len(hist) = Len(bids)
    /\ now \in 0..MaxTime
    /\ timer \in 0..SweepPeriod
    /\ \A p \in Procs :
          /\ req[p].pc \in {"idle", "checked", "built"}
          /\ req[p].pc = "idle" => req[p] = Idle
          /\ req[p].pc # "idle" =>
                /\ req[p].item_id \in 1..Len(items)
                /\ req[p].user \in Users
                /\ req[p].bid \in Amounts
                /\ req[p].loaded \in Amounts \cup {None}
    /\ resp \in {"", "NotFound", "SelfBid", "BelowStartingBid", "BelowCurrentBid",
                "Admitted", "Failed", "ServerError"}

\* ------------------------------------------------------------- add_item
\* POST /items, lines 166-245: the starting_bid and days checks, then the
\* INSERT.  A rejected form changes nothing.  A NaN starting_bid passes the
\* check of line 185 (nan <= 0 is False), and so does inf.
add_item(owner, starting_bid, days) ==
    /\ Len(items) + 1 \in ItemIds
    /\ ~FloatLe(starting_bid, 0)
    /\ ~(days <= 0)
    /\ items' = Append(items, NewItem(owner, starting_bid, days, now))
    /\ UNCHANGED <<bids, now, timer, req, resp, hist>>

\* --------------------------------------------------- mark_ended_auctions
\* Variants of MarkEndedRow with the statement changed.
MarkEndedRow_NoWhere(row, t) ==       \* the WHERE clause left out
    [row EXCEPT !.is_active = FALSE]

MarkEndedRow_Toggle(row, t) ==        \* is_active flipped instead of cleared
    IF row.end_at <= t THEN [row EXCEPT !.is_active = ~row.is_active] ELSE row

MarkEndedRow_NoCommit(row, t) ==      \* the UPDATE never committed
    row

\* UPDATE items SET is_active = false WHERE end_at <= now  (lines 62-69):
\* one statement, one transaction; no other column is written.
MarkEndedRow(row, t) ==
    IF row.end_at <= t THEN [row EXCEPT !.is_active = FALSE] ELSE row

MarkEnded(store, t) ==
    [ items |-> [k \in 1..Len(store.items) |-> MarkEndedRow(store.items[k], t)],
      bids  |-> store.bids ]

Store == [items |-> items, bids |-> bids]

mark_ended_auctions ==
    /\ timer = 0
    /\ items' = MarkEnded(Store, now).items
    /\ bids'  = MarkEnded(Store, now).bids
    /\ timer' = SweepPeriod
    /\ UNCHANGED <<now, req, resp, hist>>

\* ----------------------------------------------------------------- clock
\* Time passes: the clock advances (saturating at MaxTime) and the sweep's
\* sleep runs down.
Tick ==
    /\ now'   = Min(now + TickStep, MaxTime)
    /\ timer' = Max(timer - TickStep, 0)
    /\ UNCHANGED <<items, bids, req, resp, hist>>

\* --------------------------------------------------------------- add_bid
\* Variants of Validate with one check changed.
Validate_NoSelfCheck(found, item, user, amount) ==   \* lines 320-325 left out
    IF ~found THEN "NotFound"
    ELSE IF item.current_bid = None
         THEN IF FloatLt(amount, item.starting_bid) THEN "BelowStartingBid" ELSE "OK"
         ELSE IF FloatLt(amount, item.current_bid) THEN "BelowCurrentBid" ELSE "OK"

\* The checks of add_bid, lines 314-338, on the row the SELECT returned
\* (found = FALSE: .first() returned None).  The results are named as in the
\* specification; the code raises HTTPException with
\*   NotFound          404 "Item not found"
\*   SelfBid           400 "You cannot bid on your own item"
\*   BelowStartingBid  400 "Bid amount cannot be less than starting bid"
\*   BelowCurrentBid   400 "Bid amount cannot be less than current bid"
\* The handler has no check of is_active or end_at.  The comparisons are
\* Python's: with NaN on either side "less than" is False and the check
\* passes.
Validate(found, item, user, amount) ==
    IF ~found THEN "NotFound"
    ELSE IF item.owner_id = user THEN "SelfBid"
    ELSE IF item.current_bid = None
         THEN IF FloatLt(amount, item.starting_bid) THEN "BelowStartingBid" ELSE "OK"
         ELSE IF FloatLt(amount, item.current_bid) THEN "BelowCurrentBid" ELSE "OK"

InFlight == {q \in Procs : req[q].pc \in {"checked", "built"}}

\* The call answers: the thread is free again.
Answer(p, result) ==
    /\ req'  = [req EXCEPT ![p] = Idle]
    /\ resp' = result

\* Lines 313-338: the request arrives, the session SELECTs the item row and
\* the handler validates against that row.  The row stays in the session and
\* is not read again; req[p].loaded is its current_bid, the one attribute of
\* it the rest of the call uses.
add_bid_read(p, item_id, user, amount) ==
    /\ req[p].pc = "idle"
    /\ LET found  == item_id \in 1..Len(items)
           item   == IF found THEN items[item_id] ELSE NoItem
           result == Validate(found, item, user, amount)
       IN  IF result = "OK"
           THEN /\ Len(bids) + Cardinality(InFlight) + 1 \in BidIds
                /\ req' = [req EXCEPT ![p] =
                       [ pc |-> "checked", item_id |-> item_id, user |-> user,
                         bid |-> amount, loaded |-> item.current_bid,
                         created_at |-> 0 ]]
                /\ resp' = resp
           ELSE Answer(p, result)
    /\ UNCHANGED <<items, bids, now, timer, hist>>

\* Lines 341-348: item.current_bid is assigned on the session's copy and the
\* Bid object is constructed; its created_at is the clock at this moment.
add_bid_build(p) ==
    /\ req[p].pc = "checked"
    /\ req' = [req EXCEPT ![p].pc = "built", ![p].created_at = now]
    /\ UNCHANGED <<items, bids, now, timer, resp, hist>>

\* The flush of line 349 for the Item: the unit of work emits
\*   UPDATE items SET current_bid = :bid WHERE id = :id
\* only when the assigned value differs from the value the session loaded
\* (an attribute set to its loaded value is not dirty; the values are
\* compared with ==, so NaN over NaN is written again); the statement has
\* no condition on the stored current_bid and writes no other column.
FlushItem(row, loaded, amount) ==
    IF FloatEq(amount, loaded) THEN row
    ELSE [row EXCEPT !.current_bid = amount]

\* Line 349, the flush and COMMIT having succeeded: the UPDATE of the item
\* and the INSERT of the bid, in one transaction.
Committed(p) ==
    LET i == req[p].item_id
    IN  /\ items' = [items EXCEPT ![i] = FlushItem(items[i], req[p].loaded, req[p].bid)]
        /\ bids'  = Append(bids, NewBid(req[p].user, i, req[p].bid, req[p].created_at))
        /\ hist'  = Append(hist, req[p].loaded)

\* Line 358 and the response_model of line 307: the Bid is returned and
\* serialised.  An amount that is not finite (NaN, inf, -inf) is not JSON
\* compliant: the serialisation raises ValueError and the client gets a
\* bare 500, after the commit.
Response(amount) == IF IsFinite(amount) THEN "Admitted" ELSE "ServerError"

\* Lines 349-358 when the COMMIT of line 349 succeeds.  The refresh of line
\* 350 is a further SELECT inside the same try: when it raises
\* SQLAlchemyError the handler goes through lines 351-356 (the rollback has
\* nothing left to undo) and answers 500 "Failed to add the bid" with the
\* bid stored; otherwise the bid is returned.
add_bid_commit(p) ==
    /\ req[p].pc = "built"
    /\ Committed(p)
    /\ \E result \in {Response(req[p].bid), "Failed"} : Answer(p, result)
    /\ UNCHANGED <<now, timer>>

\* Lines 351-356, the except branch: the session rolls back and the call
\* answers 500 "Failed to add the bid".  It is entered when the flush or
\* COMMIT of line 349 raises, and then nothing is stored, or when the
\* refresh of line 350 raises, and then the transaction is already
\* committed.
add_bid_fail(p) ==
    /\ req[p].pc = "built"
    /\ \/ UNCHANGED <<items, bids, hist>>
       \/ Committed(p)
    /\ Answer(p, "Failed")
    /\ UNCHANGED <<now, timer>>

Init ==
    /\ items = <<>>
    /\ bids  = <<>>
    /\ now   = 0
    /\ timer = 0
    /\ req   = [p \in Procs |-> Idle]
    /\ resp  = ""
    /\ hist  = <<>>

Next ==
    \/ \E u \in Sellers, s \in StartingBids, d \in Days : add_item(u, s, d)
    \/ \E p \in Procs, i \in ItemIds, u \in Users, a \in Amounts :
           add_bid_read(p, i, u, a)
    \/ \E p \in Procs : add_bid_build(p)
    \/ \E p \in Procs : add_bid_commit(p)
    \/ \E p \in Procs : add_bid_fail(p)
    \/ mark_ended_auctions
    \/ Tick

Spec == Init /\ [][Next]_vars

\* repeat_every re-arms the sweep after every run, also after a run that
\* raised, and the clock never stops: both keep happening.
FairSpec == Spec /\ WF_vars(mark_ended_auctions) /\ WF_vars(Tick)

\* ------------------------------------------------------------ vocabulary
Exists(i) == i \in 1..Len(items)

\* The auction's ledger: its rows of the bids table, in commit order.
LedgerOf(bs, i) == SelectSeq(bs, LAMBDA b : b.item_id = i)

\* Positions in the bids table of the auction's bids.
BidIdsOf(i) == {k \in 1..Len(bids) : bids[k].item_id = i}

AllIdle == \A p \in Procs : req[p].pc = "idle"

\* The order of amounts the specification speaks of: a >= b as numbers.  NaN
\* is a number's equal or better in neither direction.
FloatGe(a, b) == FloatLe(b, a)

\* before -> after is no decrease of a current_bid: None is below every
\* amount, a set value never returns to None, an untouched value stays.
NoDecrease(before, after) ==
    \/ before = None
    \/ after # None /\ (after = before \/ FloatGe(after, before))

\* m is the largest amount among the auction's bids (None if it has none).
IsMaxBidOf(m, i) ==
    IF BidIdsOf(i) = {} THEN m = None
    ELSE /\ \E k \in BidIdsOf(i) : bids[k].bid = m
         /\ \A k \in BidIdsOf(i) : FloatGe(m, bids[k].bid)

\* The bid the specification makes the winner: the maximum amount, ties to
\* the earliest created_at, then to the lowest id.
Beats(j, k) ==
    \/ FloatLt(bids[k].bid, bids[j].bid)
    \/ FloatEq(bids[j].bid, bids[k].bid) /\ bids[j].created_at < bids[k].created_at
    \/ FloatEq(bids[j].bid, bids[k].bid) /\ bids[j].created_at = bids[k].created_at /\ j <= k

IsWinningBidOf(j, i) == j \in BidIdsOf(i) /\ \A k \in BidIdsOf(i) : Beats(j, k)

\* ================================================================ claims

\* C1: two admitted bids of one auction were never admitted against the same
\* observed current_bid (None included), unless the earlier of the two was
\* an equal bid that left the price where it was.  The code has no
\* compare-and-swap: two calls that read the same price both commit.
C1_NoDoubleAdmission ==
    \A j, k \in 1..Len(bids) :
        (j < k /\ bids[j].item_id = bids[k].item_id /\ hist[j] = hist[k])
            => bids[j].bid = hist[j]

\* C2: in every step the stored current_bid of every auction is >= the one
\* before the step (None below every amount): it never decreases and never
\* returns to None.
C2_CurrentBidNonDecreasing ==
    [][\A i \in 1..Len(items) :
          NoDecrease(items[i].current_bid, items'[i].current_bid)]_vars

\* C3: once every submitted bid has completed, current_bid is the maximum
\* admitted amount, and the ledger in created_at order is non-decreasing in
\* amount.
C3_FinalIsMaxAndLedgerOrdered ==
    AllIdle =>
        \A i \in 1..Len(items) :
            /\ IsMaxBidOf(items[i].current_bid, i)
            /\ \A j, k \in BidIdsOf(i) :
                   bids[j].created_at < bids[k].created_at
                       => FloatGe(bids[k].bid, bids[j].bid)

\* C4: once an auction's is_active is false, no step appends a bid to its
\* ledger or changes its current_bid.
C4_NoBidAfterClose ==
    [][\A i \in 1..Len(items) :
          ~items[i].is_active =>
              /\ LedgerOf(bids', i) = LedgerOf(bids, i)
              /\ items'[i].current_bid = items[i].current_bid]_vars

\* C5: is_active changes only from true to false, only in a step of the
\* sweep, and only for an auction with end_at <= now.
C5_ActiveOnlyCleared ==
    [][\A i \in 1..Len(items) :
          items'[i].is_active # items[i].is_active =>
              /\ items[i].is_active
              /\ ~items'[i].is_active
              /\ items[i].end_at <= now
              /\ mark_ended_auctions]_vars

C5_Witness ==
    \E i \in 1..Len(items) : ~items[i].is_active /\ items[i].end_at <= now

\* C6: an inactive auction with a non-empty ledger has as winner the bidder
\* of its maximum bid (ties to the earliest).
C6_WinnerIsHighestBidder ==
    \A i \in 1..Len(items) :
        (~items[i].is_active /\ BidIdsOf(i) # {})
            => \E j \in BidIdsOf(i) :
                   /\ IsWinningBidOf(j, i)
                   /\ items[i].winner_id = bids[j].user_id

\* C7: running the sweep a second time at the same now changes nothing: the
\* store after two runs is the store after one.
C7_SweepIdempotent ==
    MarkEnded(MarkEnded(Store, now), now) = MarkEnded(Store, now)

C7_Witness ==
    /\ MarkEnded(Store, now) # Store
    /\ bids # <<>>

\* C8: a bid by the owner of an existing auction is answered SelfBid whatever
\* its amount and the current_bid, and changes neither table; no bid in the
\* bids table is by the owner of its auction.
C8_SelfBidRejected ==
    [][/\ \A p \in Procs, i \in ItemIds, a \in Amounts :
             (Exists(i) /\ add_bid_read(p, i, items[i].owner_id, a))
                 => /\ resp' = "SelfBid"
                    /\ req'[p] = Idle
                    /\ items' = items
                    /\ bids' = bids
       /\ \A k \in 1..Len(bids') :
             bids'[k].user_id # items'[bids'[k].item_id].owner_id]_vars

C8_Witness ==
    resp = "SelfBid"

\* C9: for a non-owner's bid on an existing active auction the check passes
\* exactly when amount >= starting_bid (current_bid None) or amount >=
\* current_bid (set), and is answered BelowStartingBid or BelowCurrentBid
\* otherwise; a commit whose loaded current_bid is still the stored one
\* appends the bid and stores its amount, so an equal bid adds a ledger
\* entry and leaves current_bid as it was.  The code rejects when amount <
\* floor, which is not the same test: a NaN amount, or any amount against a
\* NaN floor, is neither >= nor <, and passes.
C9_AmountRule ==
    [][/\ \A p \in Procs, i \in ItemIds, u \in Users, a \in Amounts :
             ( /\ Exists(i)
               /\ items[i].is_active /\ items[i].end_at > now
               /\ u # items[i].owner_id
               /\ add_bid_read(p, i, u, a) )
             => IF items[i].current_bid = None
                THEN IF FloatGe(a, items[i].starting_bid)
                     THEN req'[p].pc = "checked"
                     ELSE req'[p] = Idle /\ resp' = "BelowStartingBid"
                ELSE IF FloatGe(a, items[i].current_bid)
                     THEN req'[p].pc = "checked"
                     ELSE req'[p] = Idle /\ resp' = "BelowCurrentBid"
       /\ \A p \in Procs :
             ( /\ add_bid_commit(p)
               /\ items[req[p].item_id].current_bid = req[p].loaded )
             => /\ items'[req[p].item_id].current_bid = req[p].bid
                /\ bids' = Append(bids, NewBid(req[p].user, req[p].item_id,
                                               req[p].bid, req[p].created_at))]_vars

\* C10: under the recurring sweep every auction whose end_at has been reached
\* is eventually inactive and stays inactive, whatever bids are placed.
C10_EventuallyClosed ==
    \A i \in ItemIds :
        (Exists(i) /\ items[i].end_at <= now)
            ~> [](Exists(i) /\ ~items[i].is_active)

C10_Witness ==
    \E i \in 1..Len(items) :
        /\ ~items[i].is_active
        /\ items[i].end_at <= now
        /\ \E p \in Procs : req[p].pc # "idle" /\ req[p].item_id = i

\* C11: in every reachable state an auction's current_bid is None exactly
\* when its ledger is empty, and otherwise is the amount of the bid committed
\* last.
C11_CurrentBidIsLastAdmitted ==
    \A i \in 1..Len(items) :
        /\ (items[i].current_bid = None) <=> (BidIdsOf(i) = {})
        /\ BidIdsOf(i) # {} =>
              items[i].current_bid =
                  LedgerOf(bids, i)[Len(LedgerOf(bids, i))].bid

\* C12: every bid in an auction's ledger has an amount >= the auction's
\* starting_bid, and current_bid, when set, is >= starting_bid, also after
\* admissions that were validated against a stale current_bid.  A NaN bid
\* passes the floor check and, once stored as current_bid, lets every later
\* amount pass the check of line 334, amounts below starting_bid included.
C12_FloorIsStartingBid ==
    /\ \A k \in 1..Len(bids) :
          FloatGe(bids[k].bid, items[bids[k].item_id].starting_bid)
    /\ \A i \in 1..Len(items) :
          items[i].current_bid # None
              => FloatGe(items[i].current_bid, items[i].starting_bid)
====
